---- MODULE Spec2Model ----
(***************************************************************************)
(* A model of medsurvive_pro_app.py: one Streamlit session over a static   *)
(* CSV file.  Every widget change re-runs the whole script from its first  *)
(* line: load, sidebar widgets, filter, Kaplan-Meier block, Cox block,     *)
(* SHAP block, treatment lookup.  An exception that no try/except of the   *)
(* script catches ends the run at the line that raised it.                 *)
(***************************************************************************)
EXTENDS Integers, Sequences, FiniteSets, TLC

VARIABLES
    csv,            \* rows of medsurvive_updated_synthetic_data.csv (static)
    columns,        \* column names the file has (static)
    widgets,        \* widget key -> value the user last chose (absent: default)
    changes,        \* number of widget changes made so far in the session
    pc,             \* position of the current script run
    executed,       \* blocks of the script the current run has executed
    uncaught,       \* source line of the exception that ended the run, 0 if none
    data,           \* `data` (lines 10-11)
    filtered_data,  \* `filtered_data` (lines 49-54)
    csv_buffer,     \* rows written to the "Download Filtered CSV" buffer
    curves,         \* traces added to fig_km, in order
    data_encoded,   \* column layout and row count of `data_encoded`
    cox_state,      \* "none", "fitted" (summary written) or "error"
    cox_download,   \* the "Download Cox Summary" button is offered
    shap_state,     \* "none", "shown" or "error"
    treatment_view, \* what the Suggested Treatments block rendered
    failed,         \* blocks of the current run in which an exception was raised
    errors          \* messages shown with st.error

vars == <<csv, columns, widgets, changes, pc, executed, uncaught, data,
          filtered_data, csv_buffer, curves, data_encoded, cox_state,
          cox_download, shap_state, treatment_view, failed, errors>>

-----------------------------------------------------------------------------
(* Bounds of the model *)

\* largest number of rows of the CSV file
MaxRows == 4
\* largest number of required columns the CSV file lacks
MaxMissing == 1
\* largest number of widget changes in one session
MaxChanges == 2

-----------------------------------------------------------------------------
(* The CSV file *)

RequiredColumns ==
    {"patient_id", "age", "sex", "diagnosis_code", "treatment_type",
     "duration", "event"}

NumericColumns == {"patient_id", "age", "duration", "event"}

\* an empty numeric cell / an empty text cell, as read_csv yields them
NullNum == 0 - 1
NullStr == "NaN"

Row(id, a, s, d, t, du, e) ==
    [patient_id |-> id, age |-> a, sex |-> s, diagnosis_code |-> d,
     treatment_type |-> t, duration |-> du, event |-> e]

\* the rows a file is drawn from, in file order; the third has an empty cell
SourceRows ==
    << Row(1, 20, "M", "I10", "medical", 5, 1),
       Row(2, 40, "F", "E11", "surgical", 3, 0),
       Row(3, NullNum, "M", "E11", "medical", 4, 1),
       Row(4, 60, "M", "I10", "surgical", 3, 1),
       Row(5, 80, "F", "Z99", "medical", 8, 0) >>

Range(s) == {s[i] : i \in DOMAIN s}

\* boolean indexing: the rows of `table` whose mask entry is true, in order
MaskSelect(table, mask) ==
    LET F[i \in 0..Len(table)] ==
            IF i = 0 THEN <<>>
            ELSE IF mask[i] THEN Append(F[i - 1], table[i]) ELSE F[i - 1]
    IN  F[Len(table)]

Files ==
    {MaskSelect(SourceRows, [i \in DOMAIN SourceRows |-> i \in S]) :
        S \in {T \in SUBSET DOMAIN SourceRows : Cardinality(T) <= MaxRows}}

ColumnSets ==
    {RequiredColumns \ M :
        M \in {N \in SUBSET RequiredColumns : Cardinality(N) <= MaxMissing}}

-----------------------------------------------------------------------------
(* pandas operations the script uses *)

Column(table, c) == [i \in DOMAIN table |-> table[i][c]]

IsNull(row, c) ==
    IF c \in NumericColumns THEN row[c] = NullNum ELSE row[c] = NullStr

\* DataFrame.dropna(): keep the rows with no empty cell in any column present
DropNa(table, cols) ==
    MaskSelect(table,
               [i \in DOMAIN table |-> \A c \in cols : ~IsNull(table[i], c)])

\* Series.unique(): distinct values in first-seen order
Unique(col) ==
    LET F[i \in 0..Len(col)] ==
            IF i = 0 THEN <<>>
            ELSE IF col[i] \in Range(F[i - 1]) THEN F[i - 1]
                 ELSE Append(F[i - 1], col[i])
    IN  F[Len(col)]

\* Series.between with the upper end left out
BetweenRightOpen(col, lo, hi) ==
    [i \in DOMAIN col |-> lo <= col[i] /\ col[i] < hi]

\* Series.between(lo, hi): inclusive at both ends
Between(col, lo, hi) == [i \in DOMAIN col |-> lo <= col[i] /\ col[i] <= hi]

\* Series.isin(values)
IsIn(col, values) == [i \in DOMAIN col |-> col[i] \in values]

\* elementwise & of two boolean Series
MaskAnd(m1, m2) == [i \in DOMAIN m1 |-> m1[i] /\ m2[i]]

-----------------------------------------------------------------------------
(* Widgets: a widget returns the user's last choice, or its default *)

Widget(key, default) == IF key \in DOMAIN widgets THEN widgets[key] ELSE default

\* line 15: st.sidebar.slider(..., (30, 70))
age_range == Widget("age_range", <<30, 70>>)
\* lines 16-18: multiselects whose default is every value of the column
sex_filter == Widget("sex_filter", Range(Unique(Column(data, "sex"))))
diag_filter ==
    Widget("diag_filter", Range(Unique(Column(data, "diagnosis_code"))))
treatment_filter ==
    Widget("treatment_filter", Range(Unique(Column(data, "treatment_type"))))
\* line 60, 107: checkboxes, unchecked by default
show_data == Widget("show_data", FALSE)
show_shap == Widget("show_shap", FALSE)
\* line 70: selectbox whose first option is None
GroupByOptions == {"None", "sex", "treatment_type", "diagnosis_code"}
group_by == Widget("group_by", "None")

\* the slider's ends: the column's minimum and maximum, widened by the
\* slider to hold its default value
SliderMin(table) ==
    LET ages == Range(Column(table, "age")) \cup {30}
    IN  CHOOSE a \in ages : \A b \in ages : a <= b
SliderMax(table) ==
    LET ages == Range(Column(table, "age")) \cup {70}
    IN  CHOOSE a \in ages : \A b \in ages : b <= a

\* the slider positions the model lets the user choose
AgeStops == {20, 40, 60, 80}

-----------------------------------------------------------------------------
(* Filter Engine, lines 49-54 *)

Criteria ==
    [age_range |-> age_range, sex_filter |-> sex_filter,
     diag_filter |-> diag_filter, treatment_filter |-> treatment_filter]

FilterMask(table, c) ==
    MaskAnd(MaskAnd(MaskAnd(
        Between(Column(table, "age"), c.age_range[1], c.age_range[2]),
        IsIn(Column(table, "sex"), c.sex_filter)),
        IsIn(Column(table, "diagnosis_code"), c.diag_filter)),
        IsIn(Column(table, "treatment_type"), c.treatment_filter))

\* the mask applied one position late
ApplyMisaligned(table, c) ==
    MaskSelect(table,
               [i \in DOMAIN table |->
                   i > 1 /\ FilterMask(table, c)[i - 1]])

Apply(table, c) == MaskSelect(table, FilterMask(table, c))

-----------------------------------------------------------------------------
(* Order of strings, as Python's < on str orders the values that occur *)

StrOrder == <<"E11", "F", "I10", "M", "Z99", "medical", "surgical">>

Rank(s) == CHOOSE i \in DOMAIN StrOrder : StrOrder[i] = s

RECURSIVE Sorted(_)
\* sorted(values): ascending
Sorted(S) ==
    IF S = {} THEN <<>>
    ELSE LET least == CHOOSE x \in S : \A y \in S : Rank(x) <= Rank(y)
         IN  <<least>> \o Sorted(S \ {least})

-----------------------------------------------------------------------------
(* Kaplan-Meier block, lines 70-85 *)

\* what kmf.fit is given: the duration and event of each row
FitInput(table) ==
    [i \in DOMAIN table |-> <<table[i].duration, table[i].event>>]

Curve(label, table) == [label |-> label, observations |-> FitInput(table)]

\* DataFrame.groupby(g): the keys that occur, ascending
GroupKeys(table, g) == Sorted(Range(Column(table, g)))

Group(table, g, key) == SelectSeq(table, LAMBDA r : r[g] = key)

\* the loop fitting the whole frame in every iteration
GroupFitWhole(table, g, key) == table

\* the frame one iteration of the loop of line 75 fits
GroupFitFrame(table, g, key) == Group(table, g, key)

GroupedCurves(table, g) ==
    LET keys == GroupKeys(table, g)
    IN  [i \in DOMAIN keys |-> Curve(keys[i], GroupFitFrame(table, g, keys[i]))]

\* filtered_data["duration"] / ["event"] raise KeyError on an absent column
SurvivalColumnsPresent == {"duration", "event"} \subseteq columns

\* whether kmf.fit raises: the estimator is outside the repository, and on
\* an empty input either answer is allowed for
KMFitRaises(table) == IF table = <<>> THEN BOOLEAN ELSE {FALSE}

-----------------------------------------------------------------------------
(* Cox block, lines 89-104 *)

\* pd.get_dummies(..., drop_first=True): numeric columns first, then for
\* each text column one indicator per level but the first, levels ascending
Indicators(table, c) ==
    LET levels == GroupKeys(table, c)
    IN  IF levels = <<>> THEN <<>>
        ELSE [i \in 1..(Len(levels) - 1) |-> <<c, levels[i + 1]>>]

EncodedColumns(table, cols) ==
    SelectSeq(<< <<"age">>, <<"duration">>, <<"event">> >>,
              LAMBDA n : n[1] \in cols)
    \o (IF "sex" \in cols THEN Indicators(table, "sex") ELSE <<>>)
    \o (IF "diagnosis_code" \in cols
            THEN Indicators(table, "diagnosis_code") ELSE <<>>)
    \o (IF "treatment_type" \in cols
            THEN Indicators(table, "treatment_type") ELSE <<>>)

GetDummies(table, cols) ==
    [columns |-> EncodedColumns(table, cols), rows |-> Len(table)]

NoFrame == [columns |-> <<>>, rows |-> 0]

\* whether cph.fit raises: always on an absent duration or event column,
\* otherwise as the external solver decides
CoxFitRaises(cols) ==
    IF {"duration", "event"} \subseteq cols THEN BOOLEAN ELSE {TRUE}

-----------------------------------------------------------------------------
(* Suggested Treatments, lines 120-136 *)

Entry(name, treatments, procedures) ==
    [found |-> TRUE, condition |-> name, treatments |-> treatments,
     procedures |-> procedures]

diagnosis_map ==
    [code \in {"I10", "E11", "J44", "K21", "N18", "F41", "M54", "R51"} |->
        CASE code = "I10" ->
                Entry("Hypertension", <<"ACE Inhibitors", "Beta Blockers">>,
                      <<"Blood Pressure Monitoring">>)
          [] code = "E11" ->
                Entry("Type 2 Diabetes", <<"Insulin", "Metformin">>,
                      <<"HbA1c Test", "Retinal Screening">>)
          [] code = "J44" ->
                Entry("COPD", <<"Bronchodilators", "Steroids">>,
                      <<"Pulmonary Function Test">>)
          [] code = "K21" ->
                Entry("GERD", <<"Antacids", "PPIs">>, <<"Endoscopy">>)
          [] code = "N18" ->
                Entry("Chronic Kidney Disease",
                      <<"Dialysis", "ACE Inhibitors">>,
                      <<"Creatinine Test", "GFR Measurement">>)
          [] code = "F41" ->
                Entry("Anxiety Disorders", <<"SSRIs", "CBT">>,
                      <<"Psychiatric Evaluation">>)
          [] code = "M54" ->
                Entry("Back Pain", <<"NSAIDs", "Physical Therapy">>,
                      <<"X-ray", "MRI">>)
          [] code = "R51" ->
                Entry("Headache", <<"Analgesics", "Triptans">>,
                      <<"Neurological Exam">>)]

\* nothing is rendered for a code the map lacks
NotFound ==
    [found |-> FALSE, condition |-> "", treatments |-> <<>>,
     procedures |-> <<>>]

\* a lookup that falls back to an entry of the map
LookupOrFirst(code) ==
    IF code \in DOMAIN diagnosis_map THEN diagnosis_map[code]
    ELSE diagnosis_map["I10"]

\* lines 132-136
Lookup(code) ==
    IF code \in DOMAIN diagnosis_map THEN diagnosis_map[code] ELSE NotFound

\* line 131: the options of the selectbox
CodeOptions(table) == Sorted(Range(Unique(Column(table, "diagnosis_code"))))

\* a selectbox starts at its first option
selected_code == Widget("selected_code", CodeOptions(data)[1])

-----------------------------------------------------------------------------
(* Download Filtered CSV, lines 64-66 *)

FileColumnOrder ==
    <<"patient_id", "age", "sex", "diagnosis_code", "treatment_type",
      "duration", "event">>

\* DataFrame.to_csv(index=False): a header line, then one line per row
ToCsv(table, cols) ==
    LET header == SelectSeq(FileColumnOrder, LAMBDA c : c \in cols)
    IN  <<header>> \o
        [i \in DOMAIN table |-> [j \in DOMAIN header |-> table[i][header[j]]]]

-----------------------------------------------------------------------------
(* The session *)

NoRun ==
    /\ executed = {}
    /\ uncaught = 0
    /\ data = <<>>
    /\ filtered_data = <<>>
    /\ csv_buffer = <<>>
    /\ curves = <<>>
    /\ data_encoded = NoFrame
    /\ cox_state = "none"
    /\ cox_download = FALSE
    /\ shap_state = "none"
    /\ treatment_view = NotFound
    /\ failed = {}
    /\ errors = {}

Init ==
    /\ csv \in Files
    /\ columns \in ColumnSets
    /\ widgets = <<>>
    /\ changes = 0
    /\ pc = "load"
    /\ NoRun

\* lines 10-11: read the file, drop incomplete rows
Load ==
    /\ pc = "load"
    /\ data' = DropNa(csv, columns)
    /\ executed' = {"load"}
    /\ pc' = "sidebar"
    /\ UNCHANGED <<csv, columns, widgets, changes, uncaught, filtered_data,
                   csv_buffer, curves, data_encoded, cox_state, cox_download,
                   shap_state, treatment_view, failed, errors>>

\* the line of lines 15-18 that raises, 0 if none: data.age of a file
\* without the column (AttributeError), int() of the minimum of an empty
\* column (ValueError), data.sex, data.diagnosis_code, data.treatment_type
SidebarRaises(table, cols) ==
    IF "age" \notin cols \/ table = <<>> THEN 15
    ELSE IF "sex" \notin cols THEN 16
    ELSE IF "diagnosis_code" \notin cols THEN 17
    ELSE IF "treatment_type" \notin cols THEN 18
    ELSE 0

\* lines 13-46
Sidebar ==
    /\ pc = "sidebar"
    /\ \/ /\ SidebarRaises(data, columns) # 0
          /\ uncaught' = SidebarRaises(data, columns)
          /\ executed' = executed
          /\ pc' = "aborted"
       \/ /\ SidebarRaises(data, columns) = 0
          /\ uncaught' = uncaught
          /\ executed' = executed \cup {"sidebar"}
          /\ pc' = "filter"
    /\ UNCHANGED <<csv, columns, widgets, changes, data, filtered_data,
                   csv_buffer, curves, data_encoded, cox_state, cox_download,
                   shap_state, treatment_view, failed, errors>>

\* the filter assigned back to `data`
FilterInPlace ==
    /\ pc = "filter"
    /\ filtered_data' = Apply(data, Criteria)
    /\ data' = filtered_data'
    /\ csv_buffer' = ToCsv(filtered_data', columns)
    /\ executed' = executed \cup {"filter"}
    /\ pc' = "km"
    /\ UNCHANGED <<csv, columns, widgets, changes, uncaught, curves,
                   data_encoded, cox_state, cox_download, shap_state,
                   treatment_view, failed, errors>>

\* lines 48-66: the filter, the raw-data toggle, the filtered CSV download
Filter ==
    /\ pc = "filter"
    /\ filtered_data' = Apply(data, Criteria)
    /\ csv_buffer' = ToCsv(filtered_data', columns)
    /\ executed' = executed \cup {"filter"}
    /\ pc' = "km"
    /\ UNCHANGED <<csv, columns, widgets, changes, uncaught, data, curves,
                   data_encoded, cox_state, cox_download, shap_state,
                   treatment_view, failed, errors>>

\* lines 68-85: no try/except encloses the block
KaplanMeier ==
    /\ pc = "km"
    /\ executed' = executed \cup {"km"}
    /\ \/ /\ group_by # "None"
          /\ GroupKeys(filtered_data, group_by) # <<>>
          /\ ~SurvivalColumnsPresent
          /\ curves' = curves
          /\ failed' = failed \cup {"km"}
          /\ uncaught' = 76
          /\ pc' = "aborted"
       \/ /\ group_by # "None"
          /\ GroupKeys(filtered_data, group_by) = <<>> \/ SurvivalColumnsPresent
          /\ curves' = GroupedCurves(filtered_data, group_by)
          /\ UNCHANGED <<failed, uncaught>>
          /\ pc' = "cox"
       \/ /\ group_by = "None"
          /\ ~SurvivalColumnsPresent
          /\ curves' = curves
          /\ failed' = failed \cup {"km"}
          /\ uncaught' = 80
          /\ pc' = "aborted"
       \/ /\ group_by = "None"
          /\ SurvivalColumnsPresent
          /\ TRUE \in KMFitRaises(filtered_data)
          /\ curves' = curves
          /\ failed' = failed \cup {"km"}
          /\ uncaught' = 80
          /\ pc' = "aborted"
       \/ /\ group_by = "None"
          /\ SurvivalColumnsPresent
          /\ FALSE \in KMFitRaises(filtered_data)
          /\ curves' = <<Curve("All Patients", filtered_data)>>
          /\ UNCHANGED <<failed, uncaught>>
          /\ pc' = "cox"
    /\ UNCHANGED <<csv, columns, widgets, changes, data, filtered_data,
                   csv_buffer, data_encoded, cox_state, cox_download,
                   shap_state, treatment_view, errors>>

\* lines 87-104: everything from drop() on is inside try/except Exception
Cox ==
    /\ pc = "cox"
    /\ executed' = executed \cup {"cox"}
    /\ \/ /\ "patient_id" \notin columns
          /\ data_encoded' = data_encoded
          /\ cox_state' = "error"
          /\ cox_download' = FALSE
          /\ failed' = failed \cup {"cox"}
          /\ errors' = errors \cup {"Error fitting Cox model"}
       \/ /\ "patient_id" \in columns
          /\ TRUE \in CoxFitRaises(columns)
          /\ data_encoded' = GetDummies(filtered_data, columns)
          /\ cox_state' = "error"
          /\ cox_download' = FALSE
          /\ failed' = failed \cup {"cox"}
          /\ errors' = errors \cup {"Error fitting Cox model"}
       \/ /\ "patient_id" \in columns
          /\ FALSE \in CoxFitRaises(columns)
          /\ data_encoded' = GetDummies(filtered_data, columns)
          /\ cox_state' = "fitted"
          /\ cox_download' = TRUE
          /\ UNCHANGED <<failed, errors>>
    /\ pc' = "shap"
    /\ UNCHANGED <<csv, columns, widgets, changes, uncaught, data,
                   filtered_data, csv_buffer, curves, shap_state,
                   treatment_view>>

\* whether the explainer raises: always on a model that was not fitted,
\* otherwise as the external library decides
ShapRaises(state) == IF state = "fitted" THEN BOOLEAN ELSE {TRUE}

\* lines 106-115: inside try/except Exception, only when the box is checked
Shap ==
    /\ pc = "shap"
    /\ executed' = executed \cup {"shap"}
    /\ \/ /\ ~show_shap
          /\ UNCHANGED <<shap_state, failed, errors>>
       \/ /\ show_shap
          /\ TRUE \in ShapRaises(cox_state)
          /\ shap_state' = "error"
          /\ failed' = failed \cup {"shap"}
          /\ errors' = errors \cup {"SHAP error"}
       \/ /\ show_shap
          /\ FALSE \in ShapRaises(cox_state)
          /\ shap_state' = "shown"
          /\ UNCHANGED <<failed, errors>>
    /\ pc' = "treat"
    /\ UNCHANGED <<csv, columns, widgets, changes, uncaught, data,
                   filtered_data, csv_buffer, curves, data_encoded, cox_state,
                   cox_download, treatment_view>>

\* lines 117-136
Treatments ==
    /\ pc = "treat"
    /\ executed' = executed \cup {"treat"}
    /\ treatment_view' = Lookup(selected_code)
    /\ pc' = "done"
    /\ UNCHANGED <<csv, columns, widgets, changes, uncaught, data,
                   filtered_data, csv_buffer, curves, data_encoded, cox_state,
                   cox_download, shap_state, failed, errors>>

-----------------------------------------------------------------------------
(* The user: a change of a rendered widget re-runs the script from its    *)
(* first line, on a blank page and with no module-level name bound         *)

BlankPage ==
    /\ executed' = {}
    /\ uncaught' = 0
    /\ data' = <<>>
    /\ filtered_data' = <<>>
    /\ csv_buffer' = <<>>
    /\ curves' = <<>>
    /\ data_encoded' = NoFrame
    /\ cox_state' = "none"
    /\ cox_download' = FALSE
    /\ shap_state' = "none"
    /\ treatment_view' = NotFound
    /\ failed' = {}
    /\ errors' = {}

RunEnded == pc \in {"done", "aborted"}

Rerun(key, value) ==
    /\ widgets' = (key :> value) @@ widgets
    /\ changes' = changes + 1
    /\ pc' = "load"
    /\ BlankPage
    /\ UNCHANGED <<csv, columns>>

\* one end of the slider is dragged to another position
ChangeAgeRange ==
    /\ RunEnded
    /\ changes < MaxChanges
    /\ "sidebar" \in executed
    /\ \E stop \in AgeStops :
          /\ SliderMin(data) <= stop /\ stop <= SliderMax(data)
          /\ \/ /\ stop <= age_range[2]
                /\ stop # age_range[1]
                /\ Rerun("age_range", <<stop, age_range[2]>>)
             \/ /\ age_range[1] <= stop
                /\ stop # age_range[2]
                /\ Rerun("age_range", <<age_range[1], stop>>)

\* a multiselect: one option is added to the selection or removed from it
Toggled(selection, v) ==
    IF v \in selection THEN selection \ {v} ELSE selection \cup {v}

ChangeSexFilter ==
    /\ RunEnded
    /\ changes < MaxChanges
    /\ "sidebar" \in executed
    /\ \E v \in Range(Unique(Column(data, "sex"))) :
          Rerun("sex_filter", Toggled(sex_filter, v))

ChangeDiagFilter ==
    /\ RunEnded
    /\ changes < MaxChanges
    /\ "sidebar" \in executed
    /\ \E v \in Range(Unique(Column(data, "diagnosis_code"))) :
          Rerun("diag_filter", Toggled(diag_filter, v))

ChangeTreatmentFilter ==
    /\ RunEnded
    /\ changes < MaxChanges
    /\ "sidebar" \in executed
    /\ \E v \in Range(Unique(Column(data, "treatment_type"))) :
          Rerun("treatment_filter", Toggled(treatment_filter, v))

ToggleShowData ==
    /\ RunEnded
    /\ changes < MaxChanges
    /\ "filter" \in executed
    /\ Rerun("show_data", ~show_data)

ChangeGroupBy ==
    /\ RunEnded
    /\ changes < MaxChanges
    /\ "filter" \in executed
    /\ \E g \in GroupByOptions : g # group_by /\ Rerun("group_by", g)

ToggleShap ==
    /\ RunEnded
    /\ changes < MaxChanges
    /\ "shap" \in executed
    /\ Rerun("show_shap", ~show_shap)

SelectCode ==
    /\ RunEnded
    /\ changes < MaxChanges
    /\ "treat" \in executed
    /\ \E c \in Range(CodeOptions(data)) :
          c # selected_code /\ Rerun("selected_code", c)

Next ==
    \/ Load
    \/ Sidebar
    \/ Filter
    \/ KaplanMeier
    \/ Cox
    \/ Shap
    \/ Treatments
    \/ ChangeAgeRange
    \/ ChangeSexFilter
    \/ ChangeDiagFilter
    \/ ChangeTreatmentFilter
    \/ ToggleShowData
    \/ ChangeGroupBy
    \/ ToggleShap
    \/ SelectCode

Spec == Init /\ [][Next]_vars

-----------------------------------------------------------------------------
(* The filter alone: one run up to line 54, from any selection the four    *)
(* sidebar widgets can hold for the file                                   *)

\* slider values: an ordered pair of positions within the slider's ends
AgeRanges(table) ==
    {<<lo, hi>> : lo \in AgeStops \cup {30, 70}, hi \in AgeStops \cup {30, 70}}
    \cap {r \in Int \X Int :
             SliderMin(table) <= r[1] /\ r[1] <= r[2] /\ r[2] <= SliderMax(table)}

InitCriteria ==
    /\ csv \in Files
    /\ columns = RequiredColumns
    /\ \E r \in AgeRanges(DropNa(csv, columns)),
          S \in SUBSET Range(Column(DropNa(csv, columns), "sex")),
          D \in SUBSET Range(Column(DropNa(csv, columns), "diagnosis_code")),
          T \in SUBSET Range(Column(DropNa(csv, columns), "treatment_type")) :
          widgets = [age_range |-> r, sex_filter |-> S, diag_filter |-> D,
                     treatment_filter |-> T]
    /\ changes = 0
    /\ pc = "load"
    /\ NoRun

NextCriteria ==
    \/ Load
    \/ Sidebar
    \/ Filter

SpecCriteria == InitCriteria /\ [][NextCriteria]_vars

-----------------------------------------------------------------------------
(* Properties *)

Matches(row) ==
    /\ age_range[1] <= row.age
    /\ row.age <= age_range[2]
    /\ row.sex \in sex_filter
    /\ row.diagnosis_code \in diag_filter
    /\ row.treatment_type \in treatment_filter

AllAccepted ==
    /\ sex_filter = Range(Column(data, "sex"))
    /\ diag_filter = Range(Column(data, "diagnosis_code"))
    /\ treatment_filter = Range(Column(data, "treatment_type"))

\* i-th kept row is the i-th matching row of `table`
KeptInOrder(kept, table) ==
    \A i \in DOMAIN kept :
        \E j \in DOMAIN table :
            /\ table[j] = kept[i]
            /\ Cardinality({k \in 1..j : Matches(table[k])}) = i

\* C1: once the filter has run, filtered_data holds exactly the rows of data
\* with min <= age <= max whose sex, diagnosis code and treatment type are
\* in their accepted sets, each once and in the order of data; on ages
\* [20,40,60,80] with everything accepted, (30,70) leaves ages [40,60].
C1_FilterExact ==
    "filter" \in executed =>
        /\ Range(filtered_data) = {r \in Range(data) : Matches(r)}
        /\ Len(filtered_data) =
               Cardinality({i \in DOMAIN data : Matches(data[i])})
        /\ KeptInOrder(filtered_data, data)
        /\ (/\ Column(data, "age") = <<20, 40, 60, 80>>
            /\ age_range = <<30, 70>>
            /\ AllAccepted)
           => Column(filtered_data, "age") = <<40, 60>>

C1_Witness ==
    /\ "filter" \in executed
    /\ Column(data, "age") = <<20, 40, 60, 80>>
    /\ Column(data, "sex") = <<"M", "F", "M", "F">>
    /\ age_range = <<30, 70>>
    /\ AllAccepted
    /\ Column(filtered_data, "age") = <<40, 60>>

EmptySelection ==
    sex_filter = {} \/ diag_filter = {} \/ treatment_filter = {}

\* C2: on a file with every required column, with an empty categorical
\* selection the filtered subset is empty and the Kaplan-Meier block ends
\* without raising and with no curve, whatever group_by is.
C2_EmptySelectionNoCurves ==
    (/\ columns = RequiredColumns
     /\ RunEnded
     /\ "km" \in executed
     /\ EmptySelection) =>
        /\ filtered_data = <<>>
        /\ "km" \notin failed
        /\ curves = <<>>

StagesAfterLoad == <<"km", "cox", "shap", "treat">>

Message(stage) ==
    CASE stage = "cox" -> "Error fitting Cox model"
      [] stage = "shap" -> "SHAP error"
      [] OTHER -> "error"

\* C3: when a run has ended, every failure raised in a stage after load was
\* caught at that stage (no uncaught exception, a message displayed) and
\* every later stage was still executed.
C3_FailuresContained ==
    RunEnded =>
        \A i \in DOMAIN StagesAfterLoad :
            StagesAfterLoad[i] \in failed =>
                /\ uncaught = 0
                /\ Message(StagesAfterLoad[i]) \in errors
                /\ \A j \in DOMAIN StagesAfterLoad :
                       j > i => StagesAfterLoad[j] \in executed

KMCompleted == "km" \in executed /\ "km" \notin failed

RowsWith(table, g, v) ==
    MaskSelect(table, [i \in DOMAIN table |-> table[i][g] = v])

\* C4: when the Kaplan-Meier block has completed: without group_by there is
\* exactly one curve, labeled "All Patients", fitted on the whole filtered
\* subset; with group_by there is exactly one curve per distinct value of
\* that field in the subset, labeled with the value, fitted on the rows
\* with that value only, the curves in ascending order of the value.
C4_CurvesByGroup ==
    KMCompleted =>
        /\ group_by = "None" =>
              /\ Len(curves) = 1
              /\ curves[1].label = "All Patients"
              /\ curves[1].observations =
                     [i \in DOMAIN filtered_data |->
                         <<filtered_data[i].duration, filtered_data[i].event>>]
        /\ group_by # "None" =>
              /\ Len(curves) =
                     Cardinality(Range(Column(filtered_data, group_by)))
              /\ {curves[i].label : i \in DOMAIN curves} =
                     Range(Column(filtered_data, group_by))
              /\ \A i \in DOMAIN curves :
                     LET rows == RowsWith(filtered_data, group_by,
                                          curves[i].label)
                     IN  curves[i].observations =
                             [k \in DOMAIN rows |->
                                 <<rows[k].duration, rows[k].event>>]
              /\ \A i, j \in DOMAIN curves :
                     i < j => Rank(curves[i].label) < Rank(curves[j].label)

C4_Witness ==
    /\ KMCompleted
    /\ group_by = "sex"
    /\ Len(curves) = 2
    /\ curves[1].label = "F"
    /\ Column(filtered_data, "sex")[1] = "M"
    /\ Len(filtered_data) > 2

Vocabulary == {"I10", "E11", "J44", "K21", "N18", "F41", "M54", "R51"}

WellFormedEntry(v) ==
    /\ v.found
    /\ v.condition # ""
    /\ Len(v.treatments) >= 1
    /\ Len(v.procedures) >= 1

\* C7: the lookup answers every code of the vocabulary with its entry (a
\* condition name, at least one treatment, at least one procedure; I10 is
\* "Hypertension") and every other code, also one of the data, with "not
\* found"; the block never raises, and what it renders is the lookup of the
\* selected code whatever the filter criteria are.
C7_LookupTotal ==
    /\ \A code \in Vocabulary : WellFormedEntry(Lookup(code))
    /\ Lookup("I10").condition = "Hypertension"
    /\ \A code \in (Range(StrOrder) \cup {"Z99"}) \ Vocabulary :
           Lookup(code) = NotFound
    /\ "treat" \in executed =>
           /\ "treat" \notin failed
           /\ pc = "done"
           /\ selected_code \in Vocabulary =>
                  /\ WellFormedEntry(treatment_view)
                  /\ treatment_view = diagnosis_map[selected_code]
           /\ selected_code \notin Vocabulary => treatment_view = NotFound

C7_Witness ==
    /\ pc = "done"
    /\ selected_code = "Z99"
    /\ "Z99" \notin diag_filter
    /\ treatment_view = NotFound

\* C8: a file that lacks a required column is never passed on: no run over
\* it reaches the filter, the Kaplan-Meier block or the Cox block.
C8_MissingColumnRejected ==
    columns # RequiredColumns =>
        executed \cap {"filter", "km", "cox"} = {}

\* C9: applying the current criteria to the filtered subset again gives the
\* same subset, same rows in the same order.
C9_FilterIdempotent ==
    "filter" \in executed => Apply(filtered_data, Criteria) = filtered_data

C9_Witness ==
    /\ "filter" \in executed
    /\ filtered_data # <<>>
    /\ Len(filtered_data) < Len(data)
    /\ Len(filtered_data) >= 2
    /\ age_range # <<30, 70>>
    /\ ~AllAccepted

NoNulls(table) ==
    \A i \in DOMAIN table : \A c \in columns : ~IsNull(table[i], c)

\* the complete rows of the file, in file order
LoadedTable ==
    MaskSelect(csv, [i \in DOMAIN csv |-> NoNulls(<<csv[i]>>)])

\* C10: after any sequence of widget changes, the table of a run is the
\* file's complete rows in file order, untouched by the stages, and what
\* the download, Kaplan-Meier and Cox stages of the run consumed is the
\* filter of that whole table under the criteria now selected.
C10_TableReadOnly ==
    LET subset == Apply(LoadedTable, Criteria)
    IN  /\ "load" \in executed => data = LoadedTable /\ NoNulls(data)
        /\ "filter" \in executed =>
               /\ filtered_data = subset
               /\ csv_buffer = ToCsv(subset, columns)
        /\ (KMCompleted /\ group_by = "None") =>
               curves[1].observations = FitInput(subset)
        /\ ("cox" \in executed /\ "patient_id" \in columns) =>
               data_encoded.rows = Len(subset)

C10_Witness ==
    /\ pc = "done"
    /\ changes >= 2
    /\ "age_range" \in DOMAIN widgets
    /\ "sex_filter" \in DOMAIN widgets
    /\ filtered_data # <<>>
    /\ Len(filtered_data) < Len(data)

====
